---------------------------- MODULE Spec2Model ----------------------------
(***************************************************************************)
(* Model of rebuild_card_data.py: the row parser (parse_csv_row), the      *)
(* keyword extractor (extract_keywords), the image map loader              *)
(* (load_images), the legacy converter (convert_legacy_to_expert) and the  *)
(* pipeline of main.                                                       *)
(*                                                                         *)
(* A Python str is modelled as a sequence of one-character strings, so     *)
(* that strip, lower, upper, capitalize, split, join, startswith, float    *)
(* and the regular expressions are computed character by character.        *)
(* A Python dict is a function whose domain is its set of keys; None is    *)
(* the record NoneVal.                                                     *)
(***************************************************************************)
EXTENDS Integers, Sequences, FiniteSets, TLC

VARIABLES
    kwText, kwOut, kwPc,        \* extract_keywords: argument, result, position
    rowIn, rowOut, rowPc,       \* parse_csv_row: argument, result, position
    imagesExists, legacyStatus, csvExists,   \* the three input files
    pc,                         \* position of main
    images,                     \* main: images (dict name -> url)
    legacy_cards,               \* main: legacy_cards (list)
    csvOpen, csvRows,           \* main: the DictReader over the primary CSV: open, rows read
    cards,                      \* main: cards (list)
    card_names_in_csv,          \* main: card_names_in_csv (set)
    legacyIdx,                  \* main: position of the loop over legacy_cards
    missing_from_csv,           \* main: missing_from_csv (list)
    outOpened, outData          \* the output file: opened for writing, its content

kwVars   == <<kwText, kwOut, kwPc>>
rowVars  == <<rowIn, rowOut, rowPc>>
fileVars == <<imagesExists, legacyStatus, csvExists>>
mainVars == <<pc, images, legacy_cards, csvOpen, csvRows, cards,
              card_names_in_csv, legacyIdx, missing_from_csv, outOpened, outData>>
vars     == <<kwVars, rowVars, fileVars, mainVars>>

---------------------------------------------------------------------------
(* Bounds of the model.                                                    *)
MaxPieces == 4       \* pieces of rules text concatenated into one text
MaxStatLen == 3      \* characters of an Energy / Might / Power cell
MaxImgRows == 2      \* rows of the images CSV
MaxLegacy == 2       \* records of the legacy JSON
MaxRows == 2         \* rows of the primary CSV

---------------------------------------------------------------------------
(* Python values.                                                          *)
NoneVal == [kind |-> "None"]

Lowers == <<"a","b","c","d","e","f","g","h","i","j","k","l","m","n","o","p","q","r","s","t","u","v","w","x","y","z">>
Uppers == <<"A","B","C","D","E","F","G","H","I","J","K","L","M","N","O","P","Q","R","S","T","U","V","W","X","Y","Z">>
Digits == {"0", "1", "2", "3", "4", "5", "6", "7", "8", "9"}
Whitespace == {" ", "\t", "\n", "\r"}

LowerSet == {Lowers[i] : i \in 1..26}
UpperSet == {Uppers[i] : i \in 1..26}
LowerOfUpper == [c \in UpperSet |-> Lowers[CHOOSE i \in 1..26 : Uppers[i] = c]]
UpperOfLower == [c \in LowerSet |-> Uppers[CHOOSE i \in 1..26 : Lowers[i] = c]]

ToLower(c) == IF c \in UpperSet THEN LowerOfUpper[c] ELSE c
ToUpper(c) == IF c \in LowerSet THEN UpperOfLower[c] ELSE c

\* str.lower(), str.upper()
Lower(s) == [i \in 1..Len(s) |-> ToLower(s[i])]
Upper(s) == [i \in 1..Len(s) |-> ToUpper(s[i])]

\* str.capitalize(): first character upper-cased, the rest lower-cased
Capitalize(s) ==
    IF s = <<>> THEN <<>> ELSE <<ToUpper(s[1])>> \o Lower(Tail(s))

\* str.strip(): leading and trailing whitespace removed
RECURSIVE LStrip(_)
LStrip(s) ==
    IF s # <<>> /\ s[1] \in Whitespace THEN LStrip(Tail(s)) ELSE s
RECURSIVE RStrip(_)
RStrip(s) ==
    IF s # <<>> /\ s[Len(s)] \in Whitespace
    THEN RStrip(SubSeq(s, 1, Len(s) - 1)) ELSE s
Strip(s) == LStrip(RStrip(s))

\* sep.join(parts)
RECURSIVE Join(_, _)
Join(parts, sep) ==
    IF parts = <<>> THEN <<>>
    ELSE IF Len(parts) = 1 THEN parts[1]
    ELSE parts[1] \o sep \o Join(Tail(parts), sep)

\* s.split(','): the pieces between the separator characters
RECURSIVE Split(_, _)
Split(s, sepChar) ==
    IF \E i \in 1..Len(s) : s[i] = sepChar
    THEN LET i == CHOOSE i \in 1..Len(s) :
                    s[i] = sepChar /\ \A k \in 1..(i - 1) : s[k] # sepChar
         IN <<SubSeq(s, 1, i - 1)>> \o Split(SubSeq(s, i + 1, Len(s)), sepChar)
    ELSE <<s>>

\* needle in s (substring test)
MatchesAt(s, p, needle) ==
    /\ p >= 1
    /\ p + Len(needle) - 1 <= Len(s)
    /\ SubSeq(s, p, p + Len(needle) - 1) = needle
Contains(s, needle) ==
    \/ needle = <<>>
    \/ \E p \in 1..(Len(s) - Len(needle) + 1) :
            s[p] = needle[1] /\ MatchesAt(s, p, needle)

\* the same, ignoring case (re.IGNORECASE on literal text)
MatchesAtCI(s, p, needle) ==
    /\ p >= 1
    /\ p + Len(needle) - 1 <= Len(s)
    /\ Lower(SubSeq(s, p, p + Len(needle) - 1)) = Lower(needle)

\* x in list
InList(x, list) == \E i \in 1..Len(list) : list[i] = x

\* dict.get(key, default)
Get(d, key, default) == IF key \in DOMAIN d THEN d[key] ELSE default

---------------------------------------------------------------------------
(* extract_keywords                                                        *)

known_keywords == <<
    <<"A","c","c","e","l","e","r","a","t","e">>, <<"A","c","t","i","o","n">>, <<"R","e","a","c","t","i","o","n">>, <<"H","i","d","d","e","n">>, <<"V","i","s","i","o","n">>, <<"L","e","g","i","o","n">>,
    <<"A","s","s","a","u","l","t">>, <<"D","e","f","e","n","d","e","r">>, <<"E","l","u","s","i","v","e">>, <<"F","e","a","r","s","o","m","e">>, <<"M","i","g","h","t","y">>, <<"T","e","m","p","o","r","a","r","y">>,
    <<"Q","u","i","c","k"," ","A","t","t","a","c","k">>, <<"O","v","e","r","w","h","e","l","m">>, <<"L","i","f","e","s","t","e","a","l">>, <<"B","a","r","r","i","e","r">>, <<"S","p","e","l","l","s","h","i","e","l","d">>,
    <<"R","e","g","e","n","e","r","a","t","i","o","n">>, <<"T","o","u","g","h">>, <<"C","h","a","l","l","e","n","g","e","r">>, <<"S","c","o","u","t">>, <<"F","u","r","y">>, <<"A","t","t","u","n","e">>,
    <<"D","e","e","p">>, <<"E","p","h","e","m","e","r","a","l">>, <<"L","a","s","t"," ","B","r","e","a","t","h">>, <<"N","e","x","u","s"," ","S","t","r","i","k","e">>, <<"P","l","a","y">>, <<"S","t","r","i","k","e">>,
    <<"S","u","p","p","o","r","t">>, <<"V","u","l","n","e","r","a","b","l","e">>, <<"C","a","p","t","u","r","e">>, <<"F","r","o","s","t","b","i","t","e">>, <<"I","m","m","o","b","i","l","e">>, <<"R","e","c","a","l","l">>,
    <<"S","i","l","e","n","c","e">>, <<"S","t","u","n">>, <<"O","b","l","i","t","e","r","a","t","e">>, <<"R","a","l","l","y">>, <<"E","n","l","i","g","h","t","e","n","e","d">>, <<"R","e","p","u","t","a","t","i","o","n">>,
    <<"L","u","r","k">>, <<"P","r","e","d","i","c","t">>, <<"I","n","v","o","k","e">>, <<"B","e","h","o","l","d">>, <<"A","u","g","m","e","n","t">>, <<"I","m","p","a","c","t">>, <<"F","o","r","m","i","d","a","b","l","e">>,
    <<"E","q","u","i","p","m","e","n","t">>, <<"A","t","t","a","c","h">>, <<"H","a","l","l","o","w","e","d">>, <<"E","v","o","l","v","e">>, <<"H","u","s","k">>, <<"B","o","o","n">>, <<"F","l","o","w">> >>

\* least j >= i with text[j] = c, or 0 when there is none
NextChar(text, i, c) ==
    IF \E j \in i..Len(text) : text[j] = c
    THEN CHOOSE j \in i..Len(text) :
            text[j] = c /\ \A k \in i..(j - 1) : text[k] # c
    ELSE 0

\* re.findall(r'\[([^\]]+)\]', text): the inner texts of the leftmost,
\* non-overlapping matches, scanning from position i
RECURSIVE FindBrackets(_, _)
FindBrackets(text, i) ==
    LET open == NextChar(text, i, "[")
        close == NextChar(text, open + 1, "]")
    IN IF open = 0 \/ close = 0 THEN <<>>
       ELSE IF close = open + 1 THEN FindBrackets(text, open + 1)
       ELSE <<SubSeq(text, open + 1, close - 1)>> \o FindBrackets(text, close + 1)

\* number of trailing characters of s that are in set
RECURSIVE TrailingRun(_, _)
TrailingRun(s, set) ==
    IF s # <<>> /\ s[Len(s)] \in set
    THEN 1 + TrailingRun(SubSeq(s, 1, Len(s) - 1), set) ELSE 0

\* re.sub(r'\s+\d+$', '', kw)
StripNumSuffix(kw) ==
    LET d == TrailingRun(kw, Digits)
        rest == SubSeq(kw, 1, Len(kw) - d)
        w == TrailingRun(rest, Whitespace)
    IN IF d >= 1 /\ w >= 1 THEN SubSeq(rest, 1, Len(rest) - w) ELSE kw

\* the loop over bracket_matches (lines 149-155), from match i on
RECURSIVE BracketPass(_, _, _)
BracketPass(matches, i, keywords) ==
    IF i > Len(matches) THEN keywords
    ELSE LET kw == Strip(matches[i])
             base_kw == StripNumSuffix(kw)
         IN BracketPass(matches, i + 1,
                IF base_kw # <<>> /\ ~InList(base_kw, keywords)
                THEN Append(keywords, kw) ELSE keywords)

\* \[KW(?:\s+\d+)?\] matched at position p, ignoring case
BracketFormAt(text, p, kw) ==
    LET q == p + Len(kw) + 1
    IN /\ p <= Len(text) /\ text[p] = "["
       /\ MatchesAtCI(text, p + 1, kw)
       /\ \/ q <= Len(text) /\ text[q] = "]"
          \/ \E w \in 1..Len(text), d \in 1..Len(text) :
                /\ q + w + d <= Len(text)
                /\ \A k \in q..(q + w - 1) : text[k] \in Whitespace
                /\ \A k \in (q + w)..(q + w + d - 1) : text[k] \in Digits
                /\ text[q + w + d] = "]"

\* \(KW matched at position p, ignoring case
ParenFormAt(text, p, kw) ==
    /\ p <= Len(text) /\ text[p] = "("
    /\ MatchesAtCI(text, p + 1, kw)

\* re.search(pattern, text, re.IGNORECASE) of line 162-163
KeywordUsage(text, kw) ==
    \E p \in 1..Len(text) : BracketFormAt(text, p, kw) \/ ParenFormAt(text, p, kw)

\* the loop over known_keywords (lines 159-165), with the entries in
\* known still to visit
RECURSIVE VocabularyPass(_, _, _, _)
VocabularyPass(text, text_lower, known, keywords) ==
    IF known = <<>> THEN keywords
    ELSE LET kw == Head(known)
         IN VocabularyPass(text, text_lower, Tail(known),
                IF /\ Contains(text_lower, Lower(kw))
                   /\ ~InList(kw, keywords)
                   /\ KeywordUsage(text, kw)
                THEN Append(keywords, kw) ELSE keywords)

extract_keywords(text) ==
    VocabularyPass(text, Lower(text), known_keywords,
                   BracketPass(FindBrackets(text, 1), 1, <<>>))

---------------------------------------------------------------------------
(* float(s) on a stripped cell.  The value is kept exactly, as             *)
(* (-1)^neg * mant * 10^exp with mant free of trailing zeros when exp < 0. *)
(* Only the plain decimal form [sign] digits [. digits] is modelled: the   *)
(* exponent, underscore, inf and nan forms need characters the cells of    *)
(* the model never hold.                                                   *)

DigitChars == <<"0","1","2","3","4","5","6","7","8","9">>
DigitVal(c) == (CHOOSE i \in 1..10 : DigitChars[i] = c) - 1

RECURSIVE DigitsToNat(_)
DigitsToNat(ds) ==
    IF ds = <<>> THEN 0
    ELSE 10 * DigitsToNat(SubSeq(ds, 1, Len(ds) - 1)) + DigitVal(ds[Len(ds)])

RECURSIVE Normalise(_, _)
Normalise(mant, exp) ==
    IF mant = 0 THEN <<0, 0>>
    ELSE IF exp < 0 /\ mant % 10 = 0 THEN Normalise(mant \div 10, exp + 1)
    ELSE <<mant, exp>>

PyFloat(neg, mant, exp) == [kind |-> "float", neg |-> neg, mant |-> mant, exp |-> exp]
PyStr(s) == [kind |-> "str", val |-> s]

\* whether float(s) succeeds (otherwise it raises ValueError)
FloatParses(s) ==
    LET body == IF s # <<>> /\ s[1] \in {"+", "-"} THEN Tail(s) ELSE s
    IN /\ \A i \in 1..Len(body) : body[i] \in Digits \cup {"."}
       /\ Cardinality({i \in 1..Len(body) : body[i] = "."}) <= 1
       /\ \E i \in 1..Len(body) : body[i] \in Digits

\* float(s), for s with FloatParses(s)
FloatValue(s) ==
    LET neg == s[1] = "-"
        body == IF s[1] \in {"+", "-"} THEN Tail(s) ELSE s
        dot == IF \E i \in 1..Len(body) : body[i] = "."
               THEN CHOOSE i \in 1..Len(body) : body[i] = "." ELSE Len(body) + 1
        whole == SubSeq(body, 1, dot - 1)
        frac == SubSeq(body, dot + 1, Len(body))
        n == Normalise(DigitsToNat(whole \o frac), 0 - Len(frac))
    IN PyFloat(neg, n[1], n[2])

\* lines 65-74: Energy and Might
ParseEnergyOrMight(cell) ==
    IF cell # <<>> /\ cell \notin {<<>>, <<"-">>}
    THEN IF FloatParses(cell) THEN FloatValue(cell) ELSE NoneVal
    ELSE NoneVal

\* ParsePower with the failed parse giving None, as for Energy and Might
ParsePower_AbsentOnFailure(power) ==
    IF power # <<>> /\ power \notin {<<>>, <<"-">>}
    THEN IF SelectSeq(Upper(power), LAMBDA c : c # "C") = <<>>
         THEN PyStr(Upper(power))
         ELSE IF FloatParses(power) THEN FloatValue(power) ELSE NoneVal
    ELSE NoneVal

\* lines 77-86: Power
ParsePower(power) ==
    IF power # <<>> /\ power \notin {<<>>, <<"-">>}
    THEN IF SelectSeq(Upper(power), LAMBDA c : c # "C") = <<>>
         THEN PyStr(Upper(power))
         ELSE IF FloatParses(power) THEN FloatValue(power) ELSE PyStr(power)
    ELSE NoneVal

---------------------------------------------------------------------------
(* parse_csv_row                                                           *)

\* a cell that is non-empty and not 'nan' in any case (lines 32, 34, 47, 114, 119)
Present(cell) == cell # <<>> /\ Lower(cell) \notin {<<>>, <<"n","a","n">>}

\* lines 27-28
DomainCell(row, key) ==
    IF Get(row, key, <<>>) # <<>>
    THEN Capitalize(Strip(Get(row, key, <<>>))) ELSE <<>>

\* DomainStr without the 'nan' test
DomainStr_NoNanCheck(row) ==
    LET domain1 == DomainCell(row, "Domain 1")
        domain2 == DomainCell(row, "Domain 2")
        domains == (IF domain1 # <<>> THEN <<domain1>> ELSE <<>>)
                   \o (IF domain2 # <<>> THEN <<domain2>> ELSE <<>>)
    IN IF domains # <<>> THEN Join(domains, <<","," ">>) ELSE <<"C","o","l","o","r","l","e","s","s">>

\* lines 31-36
DomainStr(row) ==
    LET domain1 == DomainCell(row, "Domain 1")
        domain2 == DomainCell(row, "Domain 2")
        domains == (IF Present(domain1) THEN <<domain1>> ELSE <<>>)
                   \o (IF Present(domain2) THEN <<domain2>> ELSE <<>>)
    IN IF domains # <<>> THEN Join(domains, <<","," ">>) ELSE <<"C","o","l","o","r","l","e","s","s">>

SubtypeKeys == <<"Subtype 1", "Subtype 2", "Subtype 3", "Subtype 4", "Subtype 5">>

\* lines 44-48, from slot i on
RECURSIVE Subtypes(_, _)
Subtypes(row, i) ==
    IF i > Len(SubtypeKeys) THEN <<>>
    ELSE LET subtype == Strip(Get(row, SubtypeKeys[i], <<>>))
         IN (IF Present(subtype) THEN <<Lower(subtype)>> ELSE <<>>)
            \o Subtypes(row, i + 1)

\* lines 39-54
TypeLine(row) ==
    LET t == Lower(Strip(Get(row, "types", <<>>)))
        card_type == IF t = <<>> THEN <<"u","n","i","t">> ELSE t
        subtypes == Subtypes(row, 1)
    IN IF subtypes # <<>>
       THEN card_type \o <<" ","-"," ">> \o Join(subtypes, <<","," ">>) ELSE card_type

\* line 120: [t.strip() for t in tags.split(',') if t.strip()]
TagList(tags) ==
    LET pieces == Split(tags, ",")
        stripped == [i \in 1..Len(pieces) |-> Strip(pieces[i])]
    IN SelectSeq(stripped, LAMBDA t : t # <<>>)

parse_csv_row(row) ==
    LET name == Strip(Get(row, "Name", <<>>))
        card_id == Strip(Get(row, "Collector Number", <<>>))
        supertypes == Strip(Get(row, "supertypes", <<>>))
        description == Strip(Get(row, "Description", <<>>))
        tags == Strip(Get(row, "Tags", <<>>))
        card_data ==
            [id |-> card_id,
             name |-> name,
             rarity |-> Lower(Strip(Get(row, "Rarity", <<>>))),
             domain |-> DomainStr(row),
             type_line |-> TypeLine(row),
             stats |-> [energy |-> ParseEnergyOrMight(Strip(Get(row, "Energy", <<>>))),
                        might |-> ParseEnergyOrMight(Strip(Get(row, "Might", <<>>))),
                        power |-> ParsePower(Strip(Get(row, "Power", <<>>)))],
             rules_text |-> [raw |-> description,
                             keywords |-> extract_keywords(description)]]
    IN IF name = <<>> THEN NoneVal
       ELSE IF card_id = <<>> THEN NoneVal
       ELSE card_data
            @@ (IF Present(supertypes)
                THEN [supertypes |-> Lower(supertypes)] ELSE <<>>)
            @@ (IF Present(tags) THEN [tags |-> TagList(tags)] ELSE <<>>)

---------------------------------------------------------------------------
(* load_images and the manual fallbacks                                    *)

\* lines 174-181, from row i on
RECURSIVE LoadImageRows(_, _, _)
LoadImageRows(rows, i, imgs) ==
    IF i > Len(rows) THEN imgs
    ELSE LET name == Strip(Get(rows[i], "Name", <<>>))
             image_url == Strip(Get(rows[i], "Card Image URL", <<>>))
             absolute == IF image_url # <<>> /\ image_url[1] = "/"
                         THEN <<"h","t","t","p","s",":","/","/","r","i","f","t","d","e","c","k","s",".","c","o","m">> \o image_url
                         ELSE image_url
         IN LoadImageRows(rows, i + 1,
                IF name # <<>> /\ image_url # <<>>
                THEN (name :> absolute) @@ imgs ELSE imgs)

load_images(rows) == LoadImageRows(rows, 1, <<>>)

manual_images == <<
    <<<<"S","e","a","l"," ","o","f"," ","R","a","g","e">>, <<"h","t","t","p","s",":","/","/","c","m","s","a","s","s","e","t","s",".","r","g","p","u","b",".","i","o","/","s","a","n","i","t","y","/","i","m","a","g","e","s","/","d","s","f","x","7","6","3","6","/","g","a","m","e","_","d","a","t","a","_","l","i","v","e","/","f","b","d","d","1","4","a","d","b","4","0","b","0","c","a","4","6","b","8","9","f","4","7","6","a","3","5","6","f","a","2","1","4","1","3","d","8","1","2","e","-","7","4","4","x","1","0","3","9",".","p","n","g">>>>,
    <<<<"S","e","a","l"," ","o","f"," ","F","o","c","u","s">>, <<"h","t","t","p","s",":","/","/","c","m","s","a","s","s","e","t","s",".","r","g","p","u","b",".","i","o","/","s","a","n","i","t","y","/","i","m","a","g","e","s","/","d","s","f","x","7","6","3","6","/","g","a","m","e","_","d","a","t","a","_","l","i","v","e","/","2","8","8","c","3","0","0","c","4","e","4","c","b","1","0","e","c","f","e","6","c","3","c","b","b","5","4","3","d","0","6","3","6","b","3","0","6","8","5","2","-","7","4","4","x","1","0","3","9",".","p","n","g">>>>,
    <<<<"S","e","a","l"," ","o","f"," ","I","n","s","i","g","h","t">>, <<"h","t","t","p","s",":","/","/","c","m","s","a","s","s","e","t","s",".","r","g","p","u","b",".","i","o","/","s","a","n","i","t","y","/","i","m","a","g","e","s","/","d","s","f","x","7","6","3","6","/","g","a","m","e","_","d","a","t","a","_","l","i","v","e","/","9","e","e","0","d","c","0","2","2","1","f","8","3","d","5","6","9","e","0","f","4","5","8","3","7","4","e","4","0","f","7","2","3","8","f","3","0","6","c","2","-","7","4","4","x","1","0","3","9",".","p","n","g">>>>,
    <<<<"S","e","a","l"," ","o","f"," ","S","t","r","e","n","g","t","h">>, <<"h","t","t","p","s",":","/","/","c","m","s","a","s","s","e","t","s",".","r","g","p","u","b",".","i","o","/","s","a","n","i","t","y","/","i","m","a","g","e","s","/","d","s","f","x","7","6","3","6","/","g","a","m","e","_","d","a","t","a","_","l","i","v","e","/","4","1","5","6","4","4","b","2","7","9","8","3","4","8","e","3","d","7","1","9","8","e","c","9","0","0","c","c","4","0","a","a","a","4","e","b","8","b","d","f","-","7","4","4","x","1","0","3","9",".","p","n","g">>>>,
    <<<<"S","e","a","l"," ","o","f"," ","D","i","s","c","o","r","d">>, <<"h","t","t","p","s",":","/","/","c","m","s","a","s","s","e","t","s",".","r","g","p","u","b",".","i","o","/","s","a","n","i","t","y","/","i","m","a","g","e","s","/","d","s","f","x","7","6","3","6","/","g","a","m","e","_","d","a","t","a","_","l","i","v","e","/","d","d","8","4","3","3","e","7","7","e","4","6","c","a","7","7","a","a","f","0","b","e","3","5","d","1","7","7","4","2","1","8","d","9","a","2","f","0","3","7","-","7","4","4","x","1","0","3","9",".","p","n","g">>>>,
    <<<<"S","e","a","l"," ","o","f"," ","U","n","i","t","y">>, <<"h","t","t","p","s",":","/","/","c","m","s","a","s","s","e","t","s",".","r","g","p","u","b",".","i","o","/","s","a","n","i","t","y","/","i","m","a","g","e","s","/","d","s","f","x","7","6","3","6","/","g","a","m","e","_","d","a","t","a","_","l","i","v","e","/","e","6","f","b","d","4","1","d","6","9","b","c","0","d","2","3","5","e","a","7","9","9","3","d","2","e","9","f","a","7","4","e","7","5","e","1","7","d","f","f","-","7","4","4","x","1","0","3","9",".","p","n","g">>>>,
    <<<<"V","a","y","n","e",","," ","H","u","n","t","e","r">>, <<"h","t","t","p","s",":","/","/","r","i","f","t","d","e","c","k","s",".","c","o","m","/","i","m","g","/","c","a","r","d","s","/","r","i","f","t","b","o","u","n","d","/","O","G","N","/","o","g","n","-","0","3","5","-","2","9","8","_","f","u","l","l",".","p","n","g">>>>,
    <<<<"A","h","r","i",","," ","I","n","q","u","i","s","i","t","i","v","e">>, <<"h","t","t","p","s",":","/","/","r","i","f","t","d","e","c","k","s",".","c","o","m","/","i","m","g","/","c","a","r","d","s","/","r","i","f","t","b","o","u","n","d","/","O","G","N","/","o","g","n","-","1","1","9","-","2","9","8","_","f","u","l","l",".","p","n","g">>>>,
    <<<<"T","e","e","m","o",","," ","S","t","r","a","t","e","g","i","s","t">>, <<"h","t","t","p","s",":","/","/","r","i","f","t","d","e","c","k","s",".","c","o","m","/","i","m","g","/","c","a","r","d","s","/","r","i","f","t","b","o","u","n","d","/","O","G","N","/","o","g","n","-","1","2","1","-","2","9","8","_","f","u","l","l",".","p","n","g">>>>,
    <<<<"S","e","t","t",","," ","B","r","a","w","l","e","r">>, <<"h","t","t","p","s",":","/","/","r","i","f","t","d","e","c","k","s",".","c","o","m","/","i","m","g","/","c","a","r","d","s","/","r","i","f","t","b","o","u","n","d","/","O","G","N","/","o","g","n","-","1","6","4","a","-","2","9","8","_","f","u","l","l",".","p","n","g">>>>,
    <<<<"Y","a","s","u","o",","," ","W","i","n","d","r","i","d","e","r">>, <<"h","t","t","p","s",":","/","/","r","i","f","t","d","e","c","k","s",".","c","o","m","/","i","m","g","/","c","a","r","d","s","/","r","i","f","t","b","o","u","n","d","/","O","G","N","/","o","g","n","-","2","0","5","-","2","9","8","_","f","u","l","l",".","p","n","g">>>>,
    <<<<"D","a","r","i","u","s",","," ","E","x","e","c","u","t","i","o","n","e","r">>, <<"h","t","t","p","s",":","/","/","r","i","f","t","d","e","c","k","s",".","c","o","m","/","i","m","g","/","c","a","r","d","s","/","r","i","f","t","b","o","u","n","d","/","O","G","N","/","o","g","n","-","2","4","3","-","2","9","8","_","f","u","l","l",".","p","n","g">>>> >>

\* SetDefault as a plain assignment d[name] = url
SetDefault_Overwrite(d, name, url) ==
    (name :> url) @@ [k \in DOMAIN d \ {name} |-> d[k]]

\* dict.setdefault(name, url)
SetDefault(d, name, url) == IF name \in DOMAIN d THEN d ELSE (name :> url) @@ d

\* lines 250-251, with the entries in manual still to visit
RECURSIVE MergeManual(_, _)
MergeManual(imgs, manual) ==
    IF manual = <<>> THEN imgs
    ELSE MergeManual(SetDefault(imgs, Head(manual)[1], Head(manual)[2]), Tail(manual))

---------------------------------------------------------------------------
(* convert_legacy_to_expert                                                *)

\* a or b on strings
OrElse(a, b) == IF a # <<>> THEN a ELSE b

convert_legacy_to_expert(legacy_card) ==
    LET card_type == Lower(Get(legacy_card, "type", <<"u","n","i","t">>))
        tags == Get(legacy_card, "tags", <<>>)
        type_line ==
            IF tags # <<>>
            THEN card_type \o <<" ","-"," ">>
                 \o Join([i \in 1..Len(tags) |-> Lower(tags[i])], <<","," ">>)
            ELSE card_type
        ability == Get(legacy_card, "ability", <<>>)
        raw_text == OrElse(Get(ability, "raw_text", <<>>),
                           Get(ability, "effect_text", <<>>))
        keywords == Get(ability, "keywords", <<>>)
    IN [id |-> Get(legacy_card, "id", <<>>),
        name |-> Get(legacy_card, "name", <<>>),
        rarity |-> Lower(Get(legacy_card, "rarity", <<>>)),
        domain |-> Get(legacy_card, "domain", <<"C","o","l","o","r","l","e","s","s">>),
        type_line |-> type_line,
        stats |-> [energy |-> Get(legacy_card, "cost", NoneVal),
                   might |-> Get(Get(legacy_card, "stats", <<>>), "might", NoneVal),
                   power |-> Get(Get(legacy_card, "stats", <<>>), "power", NoneVal)],
        rules_text |-> [raw |-> raw_text, keywords |-> keywords],
        image_url |-> Get(legacy_card, "image_url", <<>>)]

---------------------------------------------------------------------------
(* Inputs.                                                                 *)

\* all sequences over set of length at most n
SeqsUpTo(set, n) == UNION {[1..k -> set] : k \in 0..n}

RECURSIVE Flatten(_)
Flatten(parts) ==
    IF parts = <<>> THEN <<>> ELSE parts[1] \o Flatten(Tail(parts))

\* rules texts: concatenations of at most MaxPieces of these pieces
KwPieces == {<<"D","e","a","l","s"," ","d","a","m","a","g","e","."," ">>, <<"[","O","v","e","r","w","h","e","l","m","]">>, <<" ">>, <<"[","A","s","s","a","u","l","t"," ","2","]">>,
             <<"(","L","i","f","e","s","t","e","a","l">>, <<"[">>, <<"]">>}
KwTexts == {Flatten(ps) : ps \in SeqsUpTo(KwPieces, MaxPieces)}

\* cells of the Energy, Might and Power columns
StatChars == {"C", "c", "3", "0", "-", ".", " ", "x"}
StatCells == SeqsUpTo(StatChars, MaxStatLen)

\* cells of the Domain 1 and Domain 2 columns
DomainCells == {<<>>, <<" ">>, <<"n","a","n">>, <<" ","N","a","N"," ">>, <<"f","u","r","y">>, <<" ","c","A","L","M">>, <<"M","I","N","D"," ">>,
                <<"c","o","l","o","r","l","e","s","s">>, <<"n","a","n","o">>}

\* the 2-row scenario's first row ("Test Unit", "001")
BaseRow ==
    ("Name" :> <<"T","e","s","t"," ","U","n","i","t">>) @@ ("Collector Number" :> <<"0","0","1">>)
    @@ ("types" :> <<"u","n","i","t">>) @@ ("Energy" :> <<"2">>) @@ ("Might" :> <<"3">>)
    @@ ("Power" :> <<"-">>) @@ ("Domain 1" :> <<>>) @@ ("Domain 2" :> <<>>)

\* a row without a given column
Without(row, key) == [k \in DOMAIN row \ {key} |-> row[k]]

RowInputs ==
    {[BaseRow EXCEPT !["Power"] = s] : s \in StatCells}
    \cup {[BaseRow EXCEPT !["Energy"] = s] : s \in StatCells}
    \cup {[BaseRow EXCEPT !["Might"] = s] : s \in StatCells}
    \cup {[BaseRow EXCEPT !["Domain 1"] = d1, !["Domain 2"] = d2] :
            d1 \in DomainCells, d2 \in DomainCells}
    \cup {Without(Without([BaseRow EXCEPT !["Domain 2"] = d2], "Domain 1"), "Power") :
            d2 \in DomainCells}
    \cup {[BaseRow EXCEPT !["Name"] = n, !["Collector Number"] = c] :
            n \in {<<>>, <<" ">>, <<" ","A"," ">>}, c \in {<<>>, <<" ">>, <<" ","7"," ">>}}

\* rows of the images CSV
ImageRowSamples == {
    ("Name" :> <<"F","o","o">>) @@ ("Card Image URL" :> <<"/","i","m","g","/","f","o","o",".","p","n","g">>),
    ("Name" :> <<" ","S","e","a","l"," ","o","f"," ","R","a","g","e">>) @@ ("Card Image URL" :> <<"h","t","t","p","s",":","/","/","x",".","i","o","/","r","a","g","e",".","p","n","g"," ">>),
    ("Name" :> <<"F","o","o">>) @@ ("Card Image URL" :> <<" ">>) }
ImageFiles == SeqsUpTo(ImageRowSamples, MaxImgRows)

\* rows of the primary CSV
CsvRowSamples == {
    ("Name" :> <<"F","o","o">>) @@ ("Collector Number" :> <<"0","0","1">>) @@ ("Rarity" :> <<"R","a","r","e">>)
        @@ ("Domain 1" :> <<"f","u","r","y">>) @@ ("Domain 2" :> <<"n","a","n">>) @@ ("types" :> <<"U","n","i","t">>)
        @@ ("Subtype 1" :> <<"Y","o","r","d","l","e">>) @@ ("Energy" :> <<"2">>) @@ ("Might" :> <<"3">>)
        @@ ("Power" :> <<"-">>) @@ ("Description" :> <<"[","A","s","s","a","u","l","t"," ","2","]">>),
    ("Name" :> <<" ","S","e","a","l"," ","o","f"," ","R","a","g","e"," ">>) @@ ("Collector Number" :> <<"0","0","2">>)
        @@ ("supertypes" :> <<"B","a","s","i","c">>) @@ ("Power" :> <<"c","c">>) @@ ("Tags" :> <<"a",","," ",",","b">>),
    ("Name" :> <<"B","a","r">>) @@ ("Collector Number" :> <<" ">>) @@ ("Domain 1" :> <<"m","i","n","d">>) }

PyInt(n) == [kind |-> "int", val |-> n]

\* records of the legacy JSON
LegacySamples == {
    ("id" :> <<"L","1">>) @@ ("name" :> <<"F","O","O">>) @@ ("rarity" :> <<"C","o","m","m","o","n">>)
        @@ ("domain" :> <<"F","u","r","y">>) @@ ("image_url" :> <<"h","t","t","p",":","/","/","o","l","d","/","f","o","o",".","p","n","g">>),
    ("id" :> <<"L","2">>) @@ ("name" :> <<"B","a","z">>) @@ ("type" :> <<"S","p","e","l","l">>)
        @@ ("tags" :> <<<<"F","a","s","t">>>>) @@ ("cost" :> PyInt(2))
        @@ ("stats" :> [might |-> PyInt(1)])
        @@ ("ability" :> [raw_text |-> <<>>, effect_text |-> <<"D","r","a","w",".">>,
                          keywords |-> <<<<"Q","u","i","c","k">>>>])
        @@ ("image_url" :> <<"h","t","t","p",":","/","/","o","l","d","/","b","a","z",".","p","n","g">>),
    ("id" :> <<"L","3">>) @@ ("name" :> <<>>) @@ ("domain" :> <<"C","a","l","m">>),
    ("id" :> <<"L","4">>) @@ ("domain" :> <<"M","i","n","d">>),
    ("name" :> <<"Q","u","x">>) @@ ("domain" :> <<>>) }
LegacyFiles == SeqsUpTo(LegacySamples, MaxLegacy)

---------------------------------------------------------------------------
(* extract_keywords applied to one text.                                   *)

MainIdle ==
    /\ imagesExists = FALSE /\ legacyStatus = "missing" /\ csvExists = FALSE
    /\ pc = "idle" /\ images = <<>> /\ legacy_cards = <<>>
    /\ csvOpen = FALSE /\ csvRows = <<>> /\ cards = <<>> /\ card_names_in_csv = {}
    /\ legacyIdx = 0 /\ missing_from_csv = <<>>
    /\ outOpened = FALSE /\ outData = <<>>
KwIdle == kwText = <<>> /\ kwOut = <<>> /\ kwPc = "idle"
RowIdle == rowIn = <<>> /\ rowOut = NoneVal /\ rowPc = "idle"

InitKw ==
    /\ kwText \in KwTexts /\ kwOut = <<>> /\ kwPc = "call"
    /\ RowIdle /\ MainIdle

ExtractKeywords ==
    /\ kwPc = "call"
    /\ kwOut' = extract_keywords(kwText)
    /\ kwPc' = "done"
    /\ UNCHANGED <<kwText, rowVars, fileVars, mainVars>>

NextKw == ExtractKeywords
SpecKw == InitKw /\ [][NextKw]_vars

---------------------------------------------------------------------------
(* parse_csv_row applied to one row.                                       *)

InitRow ==
    /\ rowIn \in RowInputs /\ rowOut = NoneVal /\ rowPc = "call"
    /\ KwIdle /\ MainIdle

ParseCsvRow ==
    /\ rowPc = "call"
    /\ rowOut' = parse_csv_row(rowIn)
    /\ rowPc' = "done"
    /\ UNCHANGED <<rowIn, kwVars, fileVars, mainVars>>

NextRow == ParseCsvRow
SpecRow == InitRow /\ [][NextRow]_vars

---------------------------------------------------------------------------
(* main                                                                    *)

Init ==
    /\ imagesExists \in BOOLEAN
    /\ legacyStatus \in {"ok", "missing", "unparseable"}
    /\ csvExists \in BOOLEAN
    /\ pc = "load_images"
    /\ images = <<>> /\ legacy_cards = <<>>
    /\ csvOpen = FALSE /\ csvRows = <<>> /\ cards = <<>> /\ card_names_in_csv = {}
    /\ legacyIdx = 0 /\ missing_from_csv = <<>>
    /\ outOpened = FALSE /\ outData = <<>>
    /\ KwIdle /\ RowIdle

\* line 234: open() of a missing images CSV raises, and nothing catches it
LoadImagesFails ==
    /\ pc = "load_images" /\ ~imagesExists
    /\ pc' = "failed"
    /\ UNCHANGED <<images, legacy_cards, csvOpen, csvRows, cards, card_names_in_csv,
                   legacyIdx, missing_from_csv, outOpened, outData,
                   kwVars, rowVars, fileVars>>

\* line 234
LoadImages ==
    /\ pc = "load_images" /\ imagesExists
    /\ \E rows \in ImageFiles : images' = load_images(rows)
    /\ pc' = "merge_manual"
    /\ UNCHANGED <<legacy_cards, csvOpen, csvRows, cards, card_names_in_csv,
                   legacyIdx, missing_from_csv, outOpened, outData,
                   kwVars, rowVars, fileVars>>

\* lines 250-251
MergeManualImages ==
    /\ pc = "merge_manual"
    /\ images' = MergeManual(images, manual_images)
    /\ pc' = "load_legacy"
    /\ UNCHANGED <<legacy_cards, csvOpen, csvRows, cards, card_names_in_csv,
                   legacyIdx, missing_from_csv, outOpened, outData,
                   kwVars, rowVars, fileVars>>

\* LoadLegacy without the try/except
LoadLegacy_Uncaught ==
    /\ pc = "load_legacy"
    /\ IF legacyStatus = "ok"
       THEN (\E content \in LegacyFiles : legacy_cards' = content) /\ pc' = "open_csv"
       ELSE legacy_cards' = <<>> /\ pc' = "failed"
    /\ UNCHANGED <<images, csvOpen, csvRows, cards, card_names_in_csv,
                   legacyIdx, missing_from_csv, outOpened, outData,
                   kwVars, rowVars, fileVars>>

\* lines 256-262: the list read, or [] when open() or json.load() raises
LoadLegacy ==
    /\ pc = "load_legacy"
    /\ IF legacyStatus = "ok"
       THEN \E content \in LegacyFiles : legacy_cards' = content
       ELSE legacy_cards' = <<>>
    /\ pc' = "open_csv"
    /\ UNCHANGED <<images, csvOpen, csvRows, cards, card_names_in_csv,
                   legacyIdx, missing_from_csv, outOpened, outData,
                   kwVars, rowVars, fileVars>>

\* line 269: open() of a missing primary CSV raises, and nothing catches it
OpenCsvFails ==
    /\ pc = "open_csv" /\ ~csvExists
    /\ pc' = "failed"
    /\ UNCHANGED <<images, legacy_cards, csvOpen, csvRows, cards, card_names_in_csv,
                   legacyIdx, missing_from_csv, outOpened, outData,
                   kwVars, rowVars, fileVars>>

\* lines 266-270
OpenCsv ==
    /\ pc = "open_csv" /\ csvExists
    /\ csvOpen' = TRUE
    /\ csvRows' = <<>>
    /\ cards' = <<>>
    /\ card_names_in_csv' = {}
    /\ pc' = "parse_rows"
    /\ UNCHANGED <<images, legacy_cards, legacyIdx, missing_from_csv,
                   outOpened, outData, kwVars, rowVars, fileVars>>

\* lines 275-276
WithImage(card, imgs) ==
    IF card.name \in DOMAIN imgs
    THEN ("image_url" :> imgs[card.name]) @@ card ELSE card

\* NameKey without lower()
NameKey_NoLower(card) == card.name

\* line 278
NameKey(card) == Lower(card.name)

\* lines 271-278: one iteration of the loop over the reader, which
\* yields the next row of the file
ParseRow ==
    /\ pc = "parse_rows" /\ Len(csvRows) < MaxRows
    /\ \E row \in CsvRowSamples :
        /\ csvRows' = Append(csvRows, row)
        /\ LET card == parse_csv_row(row)
           IN IF card # NoneVal
              THEN /\ cards' = Append(cards, WithImage(card, images))
                   /\ card_names_in_csv' = card_names_in_csv \cup {NameKey(card)}
              ELSE UNCHANGED <<cards, card_names_in_csv>>
    /\ UNCHANGED <<pc, images, legacy_cards, csvOpen, legacyIdx, missing_from_csv,
                   outOpened, outData, kwVars, rowVars, fileVars>>

\* lines 280-283: the reader is exhausted and the file is closed
EndParse ==
    /\ pc = "parse_rows"
    /\ csvOpen' = FALSE
    /\ pc' = "reconcile"
    /\ legacyIdx' = 1
    /\ missing_from_csv' = <<>>
    /\ UNCHANGED <<images, legacy_cards, csvRows, cards, card_names_in_csv,
                   outOpened, outData, kwVars, rowVars, fileVars>>

\* MissingFromCsv without the test that the name is non-empty
MissingFromCsv_NoEmptyCheck(legacy_card, names) ==
    Lower(Get(legacy_card, "name", <<>>)) \notin names

\* lines 285-286
MissingFromCsv(legacy_card, names) ==
    LET legacy_name == Lower(Get(legacy_card, "name", <<>>))
    IN legacy_name # <<>> /\ legacy_name \notin names

\* lines 284-289: one iteration of the loop over legacy_cards
ReconcileLegacy ==
    /\ pc = "reconcile" /\ legacyIdx <= Len(legacy_cards)
    /\ LET legacy_card == legacy_cards[legacyIdx]
       IN IF MissingFromCsv(legacy_card, card_names_in_csv)
          THEN /\ cards' = Append(cards, convert_legacy_to_expert(legacy_card))
               /\ missing_from_csv' =
                    Append(missing_from_csv, Get(legacy_card, "name", <<"U","n","k","n","o","w","n">>))
          ELSE UNCHANGED <<cards, missing_from_csv>>
    /\ legacyIdx' = legacyIdx + 1
    /\ UNCHANGED <<pc, images, legacy_cards, csvOpen, csvRows, card_names_in_csv,
                   outOpened, outData, kwVars, rowVars, fileVars>>

\* lines 299-301
WriteOutput ==
    /\ pc = "reconcile" /\ legacyIdx > Len(legacy_cards)
    /\ outOpened' = TRUE
    /\ outData' = cards
    /\ pc' = "done"
    /\ UNCHANGED <<images, legacy_cards, csvOpen, csvRows, cards, card_names_in_csv,
                   legacyIdx, missing_from_csv, kwVars, rowVars, fileVars>>

Next ==
    \/ LoadImagesFails \/ LoadImages \/ MergeManualImages \/ LoadLegacy
    \/ OpenCsvFails \/ OpenCsv \/ ParseRow \/ EndParse
    \/ ReconcileLegacy \/ WriteOutput

Spec == Init /\ [][Next]_vars

---------------------------------------------------------------------------
(* Properties of extract_keywords (under SpecKw).                          *)

NoDuplicates(list) ==
    \A i \in 1..Len(list), j \in 1..Len(list) : i # j => list[i] # list[j]

\* C1: for every rules text, the sequence extract_keywords returns holds no
\* entry twice, entries compared by their exact text, numeric suffix included.
C1_KeywordsDuplicateFree ==
    kwPc = "done" => NoDuplicates(kwOut)

TextOverwhelmAssault == <<"D","e","a","l","s"," ","d","a","m","a","g","e","."," ","[","O","v","e","r","w","h","e","l","m","]"," ","[","A","s","s","a","u","l","t"," ","2","]">>

\* C2: extract_keywords applied to "Deals damage. [Overwhelm] [Assault 2]"
\* returns exactly ["Overwhelm", "Assault 2"], in that order.
C2_OverwhelmThenAssault2 ==
    (kwPc = "done" /\ kwText = TextOverwhelmAssault)
        => kwOut = <<<<"O","v","e","r","w","h","e","l","m">>, <<"A","s","s","a","u","l","t"," ","2">>>>

---------------------------------------------------------------------------
(* Properties of parse_csv_row (under SpecRow).                            *)

\* a cell that is empty after trimming, or 'nan' in any case
AbsentCell(cell) == Strip(cell) = <<>> \/ Lower(Strip(cell)) = <<"n","a","n">>

\* the present domains of a row, capitalized, in column order
PresentDomains(row) ==
    LET d1 == Get(row, "Domain 1", <<>>)
        d2 == Get(row, "Domain 2", <<>>)
    IN (IF AbsentCell(d1) THEN <<>> ELSE <<Capitalize(Strip(d1))>>)
       \o (IF AbsentCell(d2) THEN <<>> ELSE <<Capitalize(Strip(d2))>>)

BothDomainsAbsent(row) ==
    AbsentCell(Get(row, "Domain 1", <<>>)) /\ AbsentCell(Get(row, "Domain 2", <<>>))

\* C5 as stated: the record's domain is "Colorless" if and only if both
\* domain cells are empty after trimming or 'nan' in any case; otherwise it is
\* the present domains, capitalized, in column order, joined by ", ".
C5_ColorlessIffBothAbsent ==
    (rowPc = "done" /\ rowOut # NoneVal) =>
        /\ rowOut.domain = <<"C","o","l","o","r","l","e","s","s">> <=> BothDomainsAbsent(rowIn)
        /\ ~BothDomainsAbsent(rowIn)
              => rowOut.domain = Join(PresentDomains(rowIn), <<","," ">>)

\* C5 amended: the record's domain is "Colorless" if both domain cells are
\* empty after trimming or 'nan' in any case; otherwise it is the present
\* domains, capitalized, in column order, joined by ", " -- which is
\* "Colorless" again exactly when the only present domain is 'colorless' in
\* any case.
C5_DomainOfRow ==
    (rowPc = "done" /\ rowOut # NoneVal) =>
        /\ BothDomainsAbsent(rowIn) => rowOut.domain = <<"C","o","l","o","r","l","e","s","s">>
        /\ ~BothDomainsAbsent(rowIn)
              => rowOut.domain = Join(PresentDomains(rowIn), <<","," ">>)
        /\ (rowOut.domain = <<"C","o","l","o","r","l","e","s","s">> /\ ~BothDomainsAbsent(rowIn))
              => \E d \in {Get(rowIn, "Domain 1", <<>>), Get(rowIn, "Domain 2", <<>>)} :
                    /\ Lower(Strip(d)) = <<"c","o","l","o","r","l","e","s","s">>
                    /\ PresentDomains(rowIn) = <<Capitalize(Strip(d))>>

\* a row with one domain absent ('nan' in mixed case) and one present
C5_Witness ==
    /\ rowPc = "done" /\ rowOut # NoneVal
    /\ Get(rowIn, "Domain 1", <<>>) = <<" ","N","a","N"," ">>
    /\ Get(rowIn, "Domain 2", <<>>) = <<"M","I","N","D"," ">>
    /\ rowOut.domain = <<"M","i","n","d">>

\* the trimmed cell of a stat column
StatCell(row, key) == Strip(Get(row, key, <<>>))

AllCs(cell) == cell # <<>> /\ \A i \in 1..Len(cell) : cell[i] \in {"C", "c"}

\* what C8 says of Energy and of Might
EnergyOrMightAsClaimed(cell, val) ==
    IF cell = <<>> \/ cell = <<"-">> \/ ~FloatParses(cell)
    THEN val = NoneVal
    ELSE val = FloatValue(cell)

\* what C8 says of Power
PowerAsClaimed(cell, val) ==
    IF cell = <<>> \/ cell = <<"-">> THEN val = NoneVal
    ELSE IF AllCs(cell) THEN val = PyStr(Upper(cell))
    ELSE IF FloatParses(cell) THEN val = FloatValue(cell)
    ELSE val = PyStr(cell)

---------------------------------------------------------------------------
(* Properties of main (under Spec).                                        *)

\* the record parse_csv_row gives for each row read
ParsedRows == [i \in 1..Len(csvRows) |-> parse_csv_row(csvRows[i])]

\* the rows for which parse_csv_row returned a record
RecordRows(parsed) == {i \in 1..Len(parsed) : parsed[i] # NoneVal}

\* the lower-cased names of the CSV-derived records
CsvNames(parsed) == {Lower(parsed[i].name) : i \in RecordRows(parsed)}

LegacyName(j) == Get(legacy_cards[j], "name", <<>>)

\* C3 as stated: after a completed run the final list has as many records as
\* there are CSV-derived records plus legacy records whose lower-cased name is
\* not among the lower-cased names of the CSV-derived records, legacy records
\* with an empty or missing name included.
C3_CountWithEmptyNames ==
    pc = "done" =>
        LET parsed == ParsedRows
        IN Len(outData) =
              Cardinality(RecordRows(parsed))
              + Cardinality({j \in 1..Len(legacy_cards) :
                                Lower(LegacyName(j)) \notin CsvNames(parsed)})

\* C3 amended: after a completed run the final list has as many records as
\* there are CSV-derived records plus legacy records whose lower-cased name is
\* non-empty and not among the lower-cased names of the CSV-derived records;
\* legacy records that repeat a name are counted once each, legacy records
\* with an empty or missing name are not counted.
C3_FinalCount ==
    pc = "done" =>
        LET parsed == ParsedRows
        IN Len(outData) =
              Cardinality(RecordRows(parsed))
              + Cardinality({j \in 1..Len(legacy_cards) :
                                /\ LegacyName(j) # <<>>
                                /\ Lower(LegacyName(j)) \notin CsvNames(parsed)})

\* a completed run with a CSV-derived record, a legacy record without a name
\* and a legacy record that was appended
C3_Witness ==
    /\ pc = "done"
    /\ Len(missing_from_csv) = 1
    /\ Len(outData) = 2
    /\ \E j \in 1..Len(legacy_cards) : LegacyName(j) = <<>>

\* C4: every record of the final list, from a CSV row or from a legacy
\* record, has a non-empty id and a non-empty name.
C4_IdAndNameNonEmpty ==
    pc = "done" =>
        \A k \in 1..Len(outData) : outData[k].id # <<>> /\ outData[k].name # <<>>

\* C6: in every record of the final list, legacy-converted ones included,
\* domain is never the empty string.
C6_DomainNeverEmpty ==
    pc = "done" => \A k \in 1..Len(outData) : outData[k].domain # <<>>

\* seq is sub with some entries left out, the order kept
RECURSIVE IsSubsequence(_, _)
IsSubsequence(sub, seq) ==
    IF sub = <<>> THEN TRUE
    ELSE IF seq = <<>> THEN FALSE
    ELSE IF sub[1] = seq[1] THEN IsSubsequence(Tail(sub), Tail(seq))
    ELSE IsSubsequence(sub, Tail(seq))

\* C7: for every legacy record whose name equals, ignoring case, the name of a
\* CSV-derived record, main appends no converted record; the final list holds
\* the CSV-derived records first, each built from its row and the image map
\* alone, and after them converted legacy records in legacy-file order.
C7_CsvWinsOverLegacy ==
    pc = "done" =>
        LET parsed == ParsedRows
            n == Cardinality(RecordRows(parsed))
            fromCsv == SelectSeq(parsed, LAMBDA c : c # NoneVal)
            converted == [j \in 1..Len(legacy_cards) |->
                            convert_legacy_to_expert(legacy_cards[j])]
        IN /\ Len(outData) >= n
           /\ \A k \in 1..n :
                 outData[k] =
                    IF fromCsv[k].name \in DOMAIN images
                    THEN fromCsv[k] @@ [image_url |-> images[fromCsv[k].name]]
                    ELSE fromCsv[k]
           /\ IsSubsequence(SubSeq(outData, n + 1, Len(outData)), converted)
           /\ \A j \in 1..Len(legacy_cards) :
                 Lower(LegacyName(j)) \in CsvNames(parsed) =>
                    \A k \in (n + 1)..Len(outData) :
                        /\ outData[k] # converted[j]
                        /\ Lower(outData[k].name) # Lower(LegacyName(j))

\* a completed run where the CSV has "Foo", the legacy file has "FOO" and a
\* record that is appended
C7_Witness ==
    /\ pc = "done"
    /\ \E k \in 1..Len(outData) : outData[k].name = <<"F","o","o">>
    /\ \E j \in 1..Len(legacy_cards) : LegacyName(j) = <<"F","O","O">>
    /\ Len(missing_from_csv) = 1

ManualNames == {manual_images[i][1] : i \in 1..Len(manual_images)}

\* C9: merging the manual overrides leaves every entry of the loaded image map
\* unchanged; an override URL enters only under a name the map did not hold.
C9_MergeFillsGapsOnly ==
    [][pc = "merge_manual" =>
        /\ \A name \in DOMAIN images :
              name \in DOMAIN images' /\ images'[name] = images[name]
        /\ DOMAIN images' = DOMAIN images \cup ManualNames
        /\ \A i \in 1..Len(manual_images) :
              manual_images[i][1] \notin DOMAIN images
                 => images'[manual_images[i][1]] = manual_images[i][2]]_vars

\* after the merge, "Seal of Rage" still has the URL of the images CSV and
\* "Seal of Focus" the manual one
C9_Witness ==
    /\ pc = "load_legacy"
    /\ Get(images, <<"S","e","a","l"," ","o","f"," ","R","a","g","e">>, <<>>) = <<"h","t","t","p","s",":","/","/","x",".","i","o","/","r","a","g","e",".","p","n","g">>
    /\ Get(images, <<"S","e","a","l"," ","o","f"," ","F","o","c","u","s">>, <<>>) = manual_images[2][2]
    /\ Get(images, <<"F","o","o">>, <<>>) = <<"h","t","t","p","s",":","/","/","r","i","f","t","d","e","c","k","s",".","c","o","m","/","i","m","g","/","f","o","o",".","p","n","g">>

\* C10: the output file is opened for writing only after the images CSV, the
\* legacy JSON and the primary CSV have been read and the record list is
\* complete; a run that fails on a missing images CSV or primary CSV has
\* written nothing; a missing or unparseable legacy JSON never fails the run,
\* which goes on with an empty legacy list.
C10_OutputOnlyAfterInputs ==
    /\ outOpened =>
          /\ pc = "done" /\ imagesExists /\ csvExists /\ ~csvOpen
          /\ legacyIdx > Len(legacy_cards)
          /\ outData = cards
    /\ pc = "failed" => ~outOpened /\ (~imagesExists \/ ~csvExists)
    /\ (imagesExists /\ csvExists) => pc # "failed"
    /\ (legacyStatus # "ok" /\ pc \notin {"load_images", "merge_manual", "load_legacy"})
          => legacy_cards = <<>>

\* a completed run whose legacy JSON could not be parsed
C10_Witness ==
    /\ pc = "done" /\ outOpened
    /\ legacyStatus = "unparseable"
    /\ legacy_cards = <<>>
    /\ Len(outData) = 2

=============================================================================
